---- MODULE Spec2Model ----
(***************************************************************************)
(* Timing core of the lecture generator:                                   *)
(*   - sync_subtitles.py      : get_audio_durations, parse_srt_file        *)
(*   - lecture_generator.py   : LectureTTSGenerator (gTTS variant)         *)
(*   - lecture_gen.py         : LectureTTSGenerator (Coqui TTS variant)    *)
(*                                                                         *)
(* Times are Python floats.  A float is modelled as an integer number of   *)
(* units of 2^-FracBits seconds that has at most MantBits significant      *)
(* bits; every arithmetic operation rounds its exact result to the nearest *)
(* such value, ties to even, as IEEE-754 does with a 53-bit significand.   *)
(***************************************************************************)
EXTENDS Integers, Sequences, FiniteSets, TLC

(* ---------------------------------------------------------------------- *)
(* Bounds of the model                                                     *)
(* ---------------------------------------------------------------------- *)
MantBits == 5
FracBits == 10
MaxCues == 4
MaxCuesAnyDict == 1
MaxSlides == 3
MaxAllocSlides == 2
MaxBlocks == 3
MaxPlayerSlides == 2
MaxTime == 2
MaxPending == 2
MaxClients == 2

One == 2 ^ FracBits
Half == 2 ^ (FracBits - 1)

(* ---------------------------------------------------------------------- *)
(* Float arithmetic                                                        *)
(* ---------------------------------------------------------------------- *)
Abs(x) == IF x < 0 THEN -x ELSE x

\* integers below MantLimit are floats with spacing 1
MantLimit == 2 ^ MantBits

RECURSIVE UlpOf(_)
UlpOf(k) == IF k < MantLimit THEN 1 ELSE 2 * UlpOf(k \div 2)

\* spacing of the floats around magnitude k
Ulp(k) == UlpOf(Abs(k))

\* nearest multiple of u to the exact quotient a / b, ties to the even multiple
RoundToMultiple(a, bu, u) ==
    LET q == a \div bu
        r == a % bu
    IN  IF 2 * r < bu \/ (2 * r = bu /\ q % 2 = 0) THEN q * u ELSE (q + 1) * u

RoundToUlp(a, b, u) == RoundToMultiple(a, b * u, u)

\* nearest float to the exact quotient a / b (a >= 0, b > 0), ties to even
RoundRatio(a, b) ==
    IF a < b * MantLimit THEN RoundToMultiple(a, b, 1)
    ELSE RoundToUlp(a, b, UlpOf(a \div b))

FRound(a, b) == IF a < 0 THEN -RoundRatio(-a, b) ELSE RoundRatio(a, b)

IsFloat(x) == FRound(x, 1) = x

FAdd(x, y) == FRound(x + y, 1)
FSub(x, y) == FRound(x - y, 1)
\* float times / divided by a Python int (a count, exactly representable)
FMulInt(i, x) == FRound(i * x, 1)
FDivInt(x, n) == FRound(x, n)

(* ---------------------------------------------------------------------- *)
(* State                                                                   *)
(* ---------------------------------------------------------------------- *)
VARIABLES
    sync_pc,             \* sync_subtitles.py: "start" | "done"; "off" when it is not run
    srt_blocks,          \* blank-line separated blocks of the SRT file
    audio_durations,     \* dict slide_num -> duration: [order, val]
    slide_boundaries,    \* dict slide_num -> {start, end}, in insertion order
    all_subtitles,       \* cues parsed from the blocks
    subtitles_by_slide,  \* result of parse_srt_file
    cue_slide            \* per cue: the slide whose list it was appended to, 0 if none

sync_vars == <<sync_pc, srt_blocks, audio_durations, slide_boundaries,
               all_subtitles, subtitles_by_slide, cue_slide>>

VARIABLES
    variant,             \* which generator module runs: lecture_generator.py or lecture_gen.py
    gen_pc,              \* position inside generate_lecture; "off" when it is not run
    slides,              \* self.slides
    subtitles,           \* self.subtitles
    subtitle_origin,     \* per subtitle: the slide and sentence index it was made from
    audio_files,         \* slide numbers of the audio files written so far
    cumulative,          \* local of generate_audio_segments
    slide_idx,           \* number of slides the audio loop has visited
    srt_items,           \* items saved by create_srt_file
    content_data,        \* json.load of the content file: the "slides" list
    raised               \* the exception that left generate_lecture, "none" if none

gen_vars == <<variant, gen_pc, slides, subtitles, subtitle_origin, audio_files,
              cumulative, slide_idx, srt_items, content_data, raised>>

VARIABLES
    player_pc,           \* output/dynamic_player.html: "open" in a browser; "off" when it is not
    num_slides,          \* len(data["slides"]) of the lecture JSON, fixed in the page
    audio_on_disk,       \* slide numbers n for which temp/audio_slide_n.wav exists
    has_avatars,         \* whether the avatar_slide_NN.mp4 files of the slides exist
    subtitleData,        \* const subtitleData of the page
    currentSlide,
    isQAMode,
    wasPlaying,
    audio_paused,        \* mainAudio.paused
    audio_ended,         \* mainAudio.ended
    audio_time,          \* mainAudio.currentTime, in ticks
    audio_ready,         \* mainAudio.readyState >= 3
    avatar_ready,        \* avatarVideo.readyState >= 3
    advance_timers,      \* 'ended' handlers waiting in setTimeout(r, 250)
    autoplay_waiting,    \* loadSlide(_, true) calls waiting at Promise.all
    subtitle_display,    \* textContent of the element 'subtitles'
    last_event           \* the handler or continuation that ran last

player_vars == <<player_pc, num_slides, audio_on_disk, has_avatars, subtitleData,
                 currentSlide, isQAMode, wasPlaying, audio_paused, audio_ended,
                 audio_time, audio_ready, avatar_ready, advance_timers,
                 autoplay_waiting, subtitle_display, last_event>>

VARIABLES
    qa_pc,               \* the Flask app of qa_handler.py: "serving"; "off" when it is not run
    TTS_AVAILABLE,       \* whether "from TTS.api import TTS" succeeded
    qa_response_wav,     \* the file temp/qa_response.wav: the text it was synthesized from
    req_pc,              \* per client: "idle" | "answering" | "answered" | "responded" | "fetched"
    generate_audio,      \* per client: data.get('generate_audio', True) of its request
    outcome,             \* per client: how answer_question ended for its request
    answer,              \* per client: what answer_question returned
    spoken,              \* per client: whether generate_spoken_answer was called
    response,            \* per client: the JSON answer of POST /api/ask
    served               \* per client: what its GET /api/audio returned

qa_vars == <<qa_pc, TTS_AVAILABLE, qa_response_wav, req_pc, generate_audio, outcome,
             answer, spoken, response, served>>

front_vars == <<player_vars, qa_vars>>

vars == <<sync_vars, gen_vars, front_vars>>

(* ---------------------------------------------------------------------- *)
(* Helpers on sets and sequences                                           *)
(* ---------------------------------------------------------------------- *)
Range(s) == {s[i] : i \in DOMAIN s}

SeqsUpTo(S, n) == UNION {[1..k -> S] : k \in 0..n}

\* all orderings of the elements of the finite set S
Orderings(S) == {o \in [1..Cardinality(S) -> S] : Range(o) = S}

RECURSIVE SortedSeq(_)
\* sorted(keys): ascending numeric order
SortedSeq(S) ==
    IF S = {} THEN <<>>
    ELSE LET m == CHOOSE x \in S : \A y \in S : x <= y
         IN  <<m>> \o SortedSeq(S \ {m})

(* ---------------------------------------------------------------------- *)
(* sync_subtitles.py                                                       *)
(* ---------------------------------------------------------------------- *)

\* characters of "<n>.wav" that decide the order of two audio file names;
\* '.' sorts before every digit
NameKey(n) == IF n < 10 THEN <<n, -1, -1>> ELSE <<n \div 10, n % 10, -1>>

PathLess(a, b) ==
    \E i \in 1..3 : NameKey(a)[i] < NameKey(b)[i]
                    /\ \A j \in 1..(i - 1) : NameKey(a)[j] = NameKey(b)[j]

RECURSIVE SortedPaths(_)
\* sorted(temp_dir.glob('audio_slide_*.wav')): order of the path strings
SortedPaths(S) ==
    IF S = {} THEN <<>>
    ELSE LET m == CHOOSE x \in S : \A y \in S \ {x} : PathLess(x, y)
         IN  <<m>> \o SortedPaths(S \ {m})

\* files: slide number of each audio file -> len(audio_data) / sample_rate
GetAudioDurations(files) ==
    [order |-> SortedPaths(DOMAIN files), val |-> files]

RECURSIVE BuildBoundaries(_, _, _, _)
BuildBoundaries(keys, durs, i, cumulative_time) ==
    IF i > Len(keys) THEN <<>>
    ELSE <<[slide_num |-> keys[i],
            start |-> cumulative_time,
            end |-> FAdd(cumulative_time, durs.val[keys[i]])]>>
         \o BuildBoundaries(keys, durs, i + 1,
                            FAdd(cumulative_time, durs.val[keys[i]]))

\* mutant: the keys in insertion order
BoundaryKeysUnsorted(durs) == durs.order

BoundaryKeys(durs) == SortedSeq(DOMAIN durs.val)

\* mutant: every boundary starts at 0, the running sum is never advanced
SlideBoundariesFromZero(durs) ==
    [i \in 1..Len(BoundaryKeys(durs)) |->
        [slide_num |-> BoundaryKeys(durs)[i], start |-> 0,
         end |-> durs.val[BoundaryKeys(durs)[i]]]]

SlideBoundaries(durs) == BuildBoundaries(BoundaryKeys(durs), durs, 1, 0)

\* start_h * 3600 + start_m * 60 + start_s + start_ms / 1000
ParseTime(t) ==
    FAdd((t.h * 3600 + t.m * 60 + t.s) * One, FRound(t.ms * One, 1000))

\* re.search(r'(\d{2}):...,(\d{3}) --> (\d{2}):...,(\d{3})', line): the search
\* succeeds when the pattern occurs anywhere in the line, whatever the
\* characters before and after the occurrence
TimingMatch(line) == line.has_timing

\* a block yields a cue when it has at least 3 lines and the search on its
\* second line succeeds
BlockIsCue(block) == block.nlines >= 3 /\ TimingMatch(block.line2)

RECURSIVE ParseBlocks(_, _)
ParseBlocks(blocks, i) ==
    IF i > Len(blocks) THEN <<>>
    ELSE IF ~BlockIsCue(blocks[i]) THEN ParseBlocks(blocks, i + 1)
    ELSE <<[start |-> ParseTime(blocks[i].start),
            end |-> ParseTime(blocks[i].end),
            text |-> blocks[i].text]>> \o ParseBlocks(blocks, i + 1)

\* mutants: the tie on a shared boundary goes to the earlier slide
InBoundsOpenStart(bounds, sub) == bounds.start < sub.start /\ sub.start <= bounds.end

InBoundsClosed(bounds, sub) == bounds.start <= sub.start /\ sub.start <= bounds.end

\* mutant: a cue belongs to the slide in which it ends
InBoundsByEnd(bounds, sub) == bounds.start <= sub.end /\ sub.end < bounds.end

InBounds(bounds, sub) == bounds.start <= sub.start /\ sub.start < bounds.end

RECURSIVE FirstMatchClamped(_, _, _)
\* mutant: a cue past the last boundary is clamped to the last slide
FirstMatchClamped(sub, bs, i) ==
    IF i > Len(bs) THEN Len(bs)
    ELSE IF InBounds(bs[i], sub) THEN i
    ELSE FirstMatchClamped(sub, bs, i + 1)

RECURSIVE FirstMatch(_, _, _)
\* index of the boundary at which the inner loop breaks, 0 if it never does
FirstMatch(sub, bs, i) ==
    IF i > Len(bs) THEN 0
    ELSE IF InBounds(bs[i], sub) THEN i
    ELSE FirstMatch(sub, bs, i + 1)

\* mutant: only the start is made relative
RelativeSegmentStartOnly(sub, bounds) ==
    [start |-> FSub(sub.start, bounds.start), end |-> sub.end, text |-> sub.text]

RelativeSegment(sub, bounds) ==
    [start |-> FSub(sub.start, bounds.start),
     end |-> FSub(sub.end, bounds.start),
     text |-> sub.text]

RECURSIVE AssignSubtitlesEagerKeys(_, _, _, _)
\* mutant: the list of a slide is created as soon as the inner loop visits it
AssignSubtitlesEagerKeys(subs, bs, j, acc) ==
    IF j > Len(subs) THEN acc
    ELSE LET hit == FirstMatch(subs[j], bs, 1)
             visited == {bs[i].slide_num : i \in 1..(IF hit = 0 THEN Len(bs) ELSE hit)}
             old == acc.by_slide
             by == [n \in (DOMAIN old) \cup visited |->
                        IF n \in DOMAIN old THEN old[n] ELSE <<>>]
         IN  IF hit = 0
             THEN AssignSubtitlesEagerKeys(subs, bs, j + 1,
                      [by_slide |-> by, assigned |-> Append(acc.assigned, 0)])
             ELSE AssignSubtitlesEagerKeys(subs, bs, j + 1,
                      [by_slide |-> [by EXCEPT ![bs[hit].slide_num] =
                                        Append(@, RelativeSegment(subs[j], bs[hit]))],
                       assigned |-> Append(acc.assigned, bs[hit].slide_num)])

RECURSIVE AssignSubtitlesNewestFirst(_, _, _, _)
\* mutant: a segment is put at the front of its slide's list
AssignSubtitlesNewestFirst(subs, bs, j, acc) ==
    IF j > Len(subs) THEN acc
    ELSE LET hit == FirstMatch(subs[j], bs, 1)
         IN  IF hit = 0
             THEN AssignSubtitlesNewestFirst(subs, bs, j + 1,
                      [acc EXCEPT !.assigned = Append(@, 0)])
             ELSE LET n == bs[hit].slide_num
                      seg == RelativeSegment(subs[j], bs[hit])
                      by == acc.by_slide
                  IN  AssignSubtitlesNewestFirst(subs, bs, j + 1,
                          [by_slide |-> IF n \in DOMAIN by
                                        THEN [by EXCEPT ![n] = <<seg>> \o @]
                                        ELSE by @@ (n :> <<seg>>),
                           assigned |-> Append(acc.assigned, n)])

RECURSIVE AssignSubtitles(_, _, _, _)
AssignSubtitles(subs, bs, j, acc) ==
    IF j > Len(subs) THEN acc
    ELSE LET hit == FirstMatch(subs[j], bs, 1)
         IN  IF hit = 0
             THEN AssignSubtitles(subs, bs, j + 1,
                      [acc EXCEPT !.assigned = Append(@, 0)])
             ELSE LET n == bs[hit].slide_num
                      seg == RelativeSegment(subs[j], bs[hit])
                      by == acc.by_slide
                  IN  AssignSubtitles(subs, bs, j + 1,
                          [by_slide |-> IF n \in DOMAIN by
                                        THEN [by EXCEPT ![n] = Append(@, seg)]
                                        ELSE by @@ (n :> <<seg>>),
                           assigned |-> Append(acc.assigned, n)])

NoSubtitles == [by_slide |-> <<>>, assigned |-> <<>>]

\* parse_srt_file(srt_path, audio_durations)
ParseSrtFile(blocks, durs) ==
    /\ srt_blocks' = blocks
    /\ audio_durations' = durs
    /\ slide_boundaries' = SlideBoundaries(durs)
    /\ all_subtitles' = ParseBlocks(blocks, 1)
    /\ \E res \in {AssignSubtitles(all_subtitles', slide_boundaries', 1, NoSubtitles)} :
          /\ subtitles_by_slide' = res.by_slide
          /\ cue_slide' = res.assigned
    /\ sync_pc' = "done"

(* ---------------------------------------------------------------------- *)
(* lecture_generator.py / lecture_gen.py                                   *)
(* ---------------------------------------------------------------------- *)
\* A text is the sequence of its sentences; " " is a fragment of whitespace.
IsBlankText(text) == \A i \in DOMAIN text : text[i] = " "

NonBlank(sentence) == sentence # " "

\* TextPreprocessor.clean_for_tts: whitespace-only lines go, sentences stay
CleanForTts(text) == SelectSeq(text, NonBlank)

\* TextPreprocessor.split_into_sentences
SplitIntoSentences(text) == SelectSeq(text, NonBlank)

\* s.get("narration_text", s.get("slide_text", ""))
RawNarration(entry) ==
    IF entry.has_narration_text THEN entry.narration_text
    ELSE IF entry.has_slide_text THEN entry.slide_text
    ELSE <<>>

SlideContent(slide_number, image_path, narration_text) ==
    [slide_number |-> slide_number, image_path |-> image_path,
     narration_text |-> narration_text, duration |-> 0, start_time |-> 0]

\* a path: a literal name, or a name with the slide number n filled in
Path(name, n) == [name |-> name, n |-> n]

\* s.get("image_path", "") in lecture_generator.py,
\* slide_data.get("image_path", f"slides/slide_{i+1}.png") in lecture_gen.py;
\* i is the 1-based position of the entry
ImagePath(v, entry, i) ==
    IF entry.has_image_path THEN entry.image_path
    ELSE IF v = "lecture_generator" THEN Path("", 0)
    ELSE Path("slides/slide_{n}.png", i)

\* mutant: an entry without text is left out, the later slides move up
LoadedSlidesSkipTextless(v, content) ==
    LET kept == SelectSeq([i \in 1..Len(content) |-> [entry |-> content[i], pos |-> i]],
                          LAMBDA e : e.entry.has_narration_text \/ e.entry.has_slide_text)
    IN  [i \in 1..Len(kept) |->
            SlideContent(i, ImagePath(v, kept[i].entry, kept[i].pos),
                         CleanForTts(RawNarration(kept[i].entry)))]

\* load_slides_content, the loop over data.get("slides", [])
LoadedSlides(v, content) ==
    [i \in 1..Len(content) |->
        SlideContent(i, ImagePath(v, content[i], i),
                     CleanForTts(RawNarration(content[i])))]

\* mutant: start_time is taken after the running sum has moved on
SequencedSlideLate(slide, measured, cumulative_time) ==
    [slide EXCEPT !.duration = measured,
                  !.start_time = FAdd(cumulative_time, measured)]

\* body of the audio loop for a slide with narration: duration, start_time
SequencedSlide(slide, measured, cumulative_time) ==
    [slide EXCEPT !.duration = measured, !.start_time = cumulative_time]

\* mutant: one slice too many
SliceDurationOffByOne(slide, sentences) == FDivInt(slide.duration, Len(sentences) + 1)

\* dur = slide.duration / len(sentences)
SliceDuration(slide, sentences) == FDivInt(slide.duration, Len(sentences))

\* mutant: sentences counted from 1
SegmentStartOneBased(slide, dur, i) == FAdd(slide.start_time, FMulInt(i + 1, dur))

\* i is 0-based, as in enumerate(sentences)
SegmentStart(slide, dur, i) == FAdd(slide.start_time, FMulInt(i, dur))

\* mutant: every segment lasts until the end of the slide
SegmentEndAtSlideEnd(v, slide, dur, i) == FAdd(slide.start_time, slide.duration)

SegmentEnd(v, slide, dur, i) ==
    IF v = "lecture_generator"
    THEN FAdd(slide.start_time, FMulInt(i + 1, dur))
    ELSE FAdd(SegmentStart(slide, dur, i), dur)

SubtitleSegment(text, start_time, end_time) ==
    [text |-> text, start_time |-> start_time, end_time |-> end_time]

\* the sentences and the slice of a slide that passed the checks
TimedSegments(v, slide, sentences) ==
    [j \in 1..Len(sentences) |->
        SubtitleSegment(sentences[j],
            SegmentStart(slide, SliceDuration(slide, sentences), j - 1),
            SegmentEnd(v, slide, SliceDuration(slide, sentences), j - 1))]

\* mutant: a slide of duration 0 is not skipped
SlideSegmentsNoZeroCheck(v, slide) ==
    LET sentences == SplitIntoSentences(slide.narration_text)
    IN  IF IsBlankText(slide.narration_text) \/ sentences = <<>>
        THEN <<>>
        ELSE TimedSegments(v, slide, sentences)

\* mutant: a slide without sentences gets one segment for its whole text
SlideSegmentsWholeText(v, slide) ==
    LET sentences == SplitIntoSentences(slide.narration_text)
    IN  IF slide.duration = 0 THEN <<>>
        ELSE IF sentences = <<>>
        THEN <<SubtitleSegment("", slide.start_time,
                               FAdd(slide.start_time, slide.duration))>>
        ELSE TimedSegments(v, slide, sentences)

\* the segments generate_subtitles appends for one slide
SlideSegments(v, slide) ==
    LET sentences == SplitIntoSentences(slide.narration_text)
    IN  IF IsBlankText(slide.narration_text) \/ slide.duration = 0 \/ sentences = <<>>
        THEN <<>>
        ELSE TimedSegments(v, slide, sentences)

RECURSIVE AllSegments(_, _, _)
AllSegments(v, ss, k) ==
    IF k > Len(ss) THEN <<>>
    ELSE SlideSegments(v, ss[k]) \o AllSegments(v, ss, k + 1)

RECURSIVE AllOrigins(_, _, _)
AllOrigins(v, ss, k) ==
    IF k > Len(ss) THEN <<>>
    ELSE [j \in 1..Len(SlideSegments(v, ss[k])) |-> [slide |-> k, index |-> j - 1]]
         \o AllOrigins(v, ss, k + 1)

\* mutant: round(t * 1000), the nearest millisecond
MillisRounded(t) == (FRound(t * 1000, 1) + Half) \div One

\* int(t * 1000): whole milliseconds of a time
Millis(t) == FRound(t * 1000, 1) \div One

SrtItem(index, seg) ==
    [index |-> index, start |-> Millis(seg.start_time),
     end |-> Millis(seg.end_time), text |-> seg.text]

GenInit ==
    /\ variant \in {"lecture_generator", "lecture_gen"}
    /\ gen_pc = "start"
    /\ slides = <<>>
    /\ subtitles = <<>>
    /\ subtitle_origin = <<>>
    /\ audio_files = <<>>
    /\ cumulative = 0
    /\ slide_idx = 0
    /\ srt_items = <<>>
    /\ content_data = <<>>
    /\ raised = "none"

\* mutant: the check for an empty slide list is missing
LoadSlidesContentUnchecked(content) ==
    /\ gen_pc = "start"
    /\ content_data' = content
    /\ slides' = LoadedSlides(variant, content)
    /\ gen_pc' = "audio"
    /\ UNCHANGED <<variant, subtitles, subtitle_origin, audio_files,
                   cumulative, slide_idx, srt_items, raised>>

\* generate_lecture: load_slides_content, then "if not self.slides: raise"
LoadSlidesContent(content) ==
    /\ gen_pc = "start"
    /\ content_data' = content
    /\ slides' = LoadedSlides(variant, content)
    /\ gen_pc' = IF slides' = <<>> THEN "failed" ELSE "audio"
    /\ raised' = IF slides' = <<>> THEN "ValueError: no slides" ELSE "none"
    /\ UNCHANGED <<variant, subtitles, subtitle_origin, audio_files,
                   cumulative, slide_idx, srt_items>>

\* one pass of the loop of generate_audio_segments: a slide without
\* narration is skipped
SkipSlide ==
    /\ gen_pc = "audio"
    /\ slide_idx < Len(slides)
    /\ IsBlankText(slides[slide_idx + 1].narration_text)
    /\ slide_idx' = slide_idx + 1
    /\ UNCHANGED <<variant, gen_pc, slides, subtitles, subtitle_origin,
                   audio_files, cumulative, srt_items, content_data, raised>>

\* ... otherwise it is synthesized and measured
SynthesizeSlide(measured) ==
    /\ gen_pc = "audio"
    /\ slide_idx < Len(slides)
    /\ ~IsBlankText(slides[slide_idx + 1].narration_text)
    /\ slides' = [slides EXCEPT ![slide_idx + 1] = SequencedSlide(@, measured, cumulative)]
    /\ cumulative' = FAdd(cumulative, measured)
    /\ audio_files' = Append(audio_files, slide_idx + 1)
    /\ slide_idx' = slide_idx + 1
    /\ UNCHANGED <<variant, gen_pc, subtitles, subtitle_origin, srt_items,
                   content_data, raised>>

\* mutant: the failure is logged and the loop goes on to the next slide
SynthesisFailsSkipped ==
    /\ gen_pc = "audio"
    /\ slide_idx < Len(slides)
    /\ ~IsBlankText(slides[slide_idx + 1].narration_text)
    /\ slide_idx' = slide_idx + 1
    /\ UNCHANGED <<variant, gen_pc, slides, subtitles, subtitle_origin, audio_files,
                   cumulative, srt_items, content_data, raised>>

\* ... or the synthesis or the decoding raises, and nothing catches it
SynthesisFails ==
    /\ gen_pc = "audio"
    /\ slide_idx < Len(slides)
    /\ ~IsBlankText(slides[slide_idx + 1].narration_text)
    /\ gen_pc' = "failed"
    /\ raised' = "synthesis error"
    /\ UNCHANGED <<variant, slides, subtitles, subtitle_origin, audio_files,
                   cumulative, slide_idx, srt_items, content_data>>

\* generate_audio_segments returns; "if not audio_files: raise"
AudioSegmentsReturn ==
    /\ gen_pc = "audio"
    /\ slide_idx = Len(slides)
    /\ gen_pc' = IF audio_files = <<>> THEN "failed" ELSE "subtitles"
    /\ raised' = IF audio_files = <<>> THEN "ValueError: no audio" ELSE "none"
    /\ UNCHANGED <<variant, slides, subtitles, subtitle_origin, audio_files,
                   cumulative, slide_idx, srt_items, content_data>>

\* mutant: the slides are rebased to 0 so that the segments are slide-relative
GenerateSubtitlesRebasing ==
    /\ gen_pc = "subtitles"
    /\ slides' = [k \in DOMAIN slides |-> [slides[k] EXCEPT !.start_time = 0]]
    /\ subtitles' = AllSegments(variant, slides', 1)
    /\ subtitle_origin' = AllOrigins(variant, slides', 1)
    /\ gen_pc' = "srt"
    /\ UNCHANGED <<variant, audio_files, cumulative, slide_idx, srt_items,
                   content_data, raised>>

GenerateSubtitles ==
    /\ gen_pc = "subtitles"
    /\ subtitles' = AllSegments(variant, slides, 1)
    /\ subtitle_origin' = AllOrigins(variant, slides, 1)
    /\ gen_pc' = "srt"
    /\ UNCHANGED <<variant, slides, audio_files, cumulative, slide_idx, srt_items,
                   content_data, raised>>

CreateSrtFile ==
    /\ gen_pc = "srt"
    /\ srt_items' = [i \in 1..Len(subtitles) |-> SrtItem(i, subtitles[i])]
    /\ gen_pc' = "done"
    /\ UNCHANGED <<variant, slides, subtitles, subtitle_origin, audio_files,
                   cumulative, slide_idx, content_data, raised>>

(* ---------------------------------------------------------------------- *)
(* Inputs                                                                  *)
(* ---------------------------------------------------------------------- *)
Stamp(s, ms) == [h |-> 0, m |-> 0, s |-> s, ms |-> ms]

\* a line in which 'HH:MM:SS,mmm --> HH:MM:SS,mmm' occurs between the
\* characters before and after
TimingLine(before, after) == [before |-> before, has_timing |-> TRUE, after |-> after]

\* a line in which the pattern does not occur
TextLine(chars) == [before |-> chars, has_timing |-> FALSE, after |-> ""]

\* start and end are the two stamps of the occurrence in the second line
Block(s1, ms1, s2, ms2, text) ==
    [nlines |-> 3, line2 |-> TimingLine("", ""),
     start |-> Stamp(s1, ms1), end |-> Stamp(s2, ms2), text |-> text]

\* "2\n00:00:06,000 --> 00:00:07,000": an item that lost its text line
ShortBlock == [Block(6, 0, 7, 0, "") EXCEPT !.nlines = 2]

\* "3\nhello\nB": no timing in the second line
NoTimingBlock == [Block(0, 0, 0, 0, "B") EXCEPT !.line2 = TextLine("hello")]

\* "4\n100:00:06,000 --> 00:00:07,0009\nq": hour 100 and a four-digit
\* fraction, the pattern occurs inside the line
EmbeddedTimingBlock == [Block(6, 0, 7, 0, "q") EXCEPT !.line2 = TimingLine("1", "9")]

\* len(audio_data) / sample_rate of short audio files: 3/64 s, 1.125 s, 5 s
FineDurations == {3 * (One \div 64), 9 * (One \div 8), 5 * One}

\* cues that start a few milliseconds around the sums of these durations
FineBlocks ==
    { Block(st, ms, st + 1, 0, "f") : st \in {0, 1, 5, 6}, ms \in {0, 46, 47, 125, 171, 172} }

\* blocks of a damaged transcript
DamagedBlocks ==
    { Block(0, 0, 1, 0, "A"), Block(5, 0, 5, 500, "x"),
      ShortBlock, NoTimingBlock, EmbeddedTimingBlock }

\* transcripts for an arbitrary mapping: cues at 0.0, 5.0 and 11.0, and a
\* cue whose timing line reads 00:00:05,000 --> 00:00:01,000
CueBlocks ==
    { Block(0, 0, 1, 0, "A"), Block(5, 0, 5, 500, "x"), Block(11, 0, 12, 0, "y"),
      Block(5, 0, 1, 0, "z") }

RebinDurations == {0, 3 * One, 5 * One}

\* a dict with the given values, inserted in the given order
Dict(order, val) == [order |-> order, val |-> val]

\* any mapping over slide numbers 1..MaxSlides, in any insertion order
AnyDurationDicts ==
    UNION { UNION { {Dict(o, v) : o \in Orderings(K)} : v \in [K -> RebinDurations] }
            : K \in SUBSET (1..MaxSlides) }

ListDict(ds) == Dict([i \in 1..Len(ds) |-> i], ds)

\* the documented decks, each with the cues of its examples
Scenarios ==
    { [durs |-> ListDict(<<3 * One, 4 * One, 2 * One>>),
       cues |-> { Block(0, 0, 1, 0, "A"), Block(3, 500, 4, 0, "B"),
                  Block(9, 0, 9, 500, "C"), Block(9, 500, 10, 0, "D") }],
      [durs |-> ListDict(<<5 * One, 5 * One>>),
       cues |-> { Block(0, 0, 1, 0, "A"), Block(5, 0, 5, 500, "x"),
                  Block(7, 500, 8, 200, "x"), Block(11, 0, 12, 0, "y") }] }

AudioFileNumbers == {1, 2, 10}

AudioFileSets ==
    UNION { [K -> RebinDurations \ {0}] : K \in SUBSET AudioFileNumbers }

\* narration texts; " " is a whitespace-only line between two sentences
Narrations == { <<"a">>, <<"bb b", " ", "a", "c">> }

Entry(text) ==
    [has_narration_text |-> TRUE, narration_text |-> text,
     has_slide_text |-> FALSE, slide_text |-> <<>>,
     has_image_path |-> TRUE, image_path |-> Path("slide.png", 0)]

\* an entry {} of the "slides" list: no narration_text, no slide_text, no image_path
TextlessEntry ==
    [has_narration_text |-> FALSE, narration_text |-> <<>>,
     has_slide_text |-> FALSE, slide_text |-> <<>>,
     has_image_path |-> FALSE, image_path |-> Path("", 0)]

ContentFiles == SeqsUpTo({Entry(t) : t \in Narrations} \cup {TextlessEntry}, MaxSlides)

\* len(audio) / sr of a generated file: 0 s, 3/64 s, 1.125 s, 5 s
MeasuredDurations == {0, 3 * (One \div 64), 9 * (One \div 8), 5 * One}

\* durations of generated files for the run of both programs: 1/64 s,
\* 1.125 s, 5 s
PipelineDurations == {One \div 64, 9 * (One \div 8), 5 * One}

\* pysrt.SubRipTime.from_ordinal(ms): hours, minutes, seconds, milliseconds
SubRipTime(ordinal) ==
    [h |-> ordinal \div 3600000, m |-> (ordinal \div 60000) % 60,
     s |-> (ordinal \div 1000) % 60, ms |-> ordinal % 1000]

\* the block SubRipFile.save writes for an item: index, timing line, text
SavedBlock(item) ==
    [nlines |-> 3, line2 |-> TimingLine("", ""),
     start |-> SubRipTime(item.start), end |-> SubRipTime(item.end), text |-> item.text]

\* slides as a caller of generate_subtitles may have filled them in
AllocSlide(narration, duration, start_time) ==
    [SlideContent(1, Path("", 0), narration)
        EXCEPT !.duration = duration, !.start_time = start_time]

AllocSlides ==
    { AllocSlide(t, d, st) : t \in {<<>>, <<"a">>, <<"a", "bb b">>},
                             d \in {0, 10 * One}, st \in {0, 5 * One} }

AllocDecks ==
    { [i \in 1..Len(deck) |-> [deck[i] EXCEPT !.slide_number = i]]
        : deck \in SeqsUpTo(AllocSlides, MaxAllocSlides) \ {<<>>} }

(* ---------------------------------------------------------------------- *)
(* Specifications                                                          *)
(* ---------------------------------------------------------------------- *)
SyncInit ==
    /\ sync_pc = "start"
    /\ srt_blocks = <<>>
    /\ audio_durations = Dict(<<>>, <<>>)
    /\ slide_boundaries = <<>>
    /\ all_subtitles = <<>>
    /\ subtitles_by_slide = <<>>
    /\ cue_slide = <<>>

\* the player page is not open
PlayerOff ==
    /\ player_pc = "off"
    /\ num_slides = 0
    /\ audio_on_disk = {}
    /\ has_avatars = FALSE
    /\ subtitleData = <<>>
    /\ currentSlide = 1
    /\ isQAMode = FALSE
    /\ wasPlaying = FALSE
    /\ audio_paused = TRUE
    /\ audio_ended = FALSE
    /\ audio_time = 0
    /\ audio_ready = FALSE
    /\ avatar_ready = FALSE
    /\ advance_timers = 0
    /\ autoplay_waiting = 0
    /\ subtitle_display = "Press play to start the lecture"
    /\ last_event = "none"

\* the Q&A server is not run
QAOff ==
    /\ qa_pc = "off"
    /\ TTS_AVAILABLE = FALSE
    /\ qa_response_wav = [exists |-> FALSE, text |-> <<>>]
    /\ req_pc = <<>>
    /\ generate_audio = <<>>
    /\ outcome = <<>>
    /\ answer = <<>>
    /\ spoken = <<>>
    /\ response = <<>>
    /\ served = <<>>

FrontOff == PlayerOff /\ QAOff

Init == SyncInit /\ GenInit /\ FrontOff

\* a call of parse_srt_file on a transcript and any duration mapping
CallParseSrtFile ==
    /\ sync_pc = "start"
    /\ \E blocks \in SeqsUpTo(CueBlocks, MaxCuesAnyDict), durs \in AnyDurationDicts :
          ParseSrtFile(blocks, durs)
    /\ UNCHANGED <<gen_vars, front_vars>>

\* a call of parse_srt_file on a longer transcript and a documented deck
CallParseSrtFileOnDeck ==
    /\ sync_pc = "start"
    /\ \E sc \in Scenarios : \E blocks \in SeqsUpTo(sc.cues, MaxCues) :
          ParseSrtFile(blocks, sc.durs)
    /\ UNCHANGED <<gen_vars, front_vars>>

\* the script body: durations of the audio files in temp/, then the SRT file
RunSyncScript ==
    /\ sync_pc = "start"
    /\ \E files \in AudioFileSets, blocks \in SeqsUpTo(CueBlocks, MaxCuesAnyDict) :
          ParseSrtFile(blocks, GetAudioDurations(files))
    /\ UNCHANGED <<gen_vars, front_vars>>

\* a call of parse_srt_file on one cue and two slides whose durations and
\* running sum are not whole seconds
CallParseSrtFileOnFine ==
    /\ sync_pc = "start"
    /\ \E d1 \in FineDurations, d2 \in FineDurations, block \in FineBlocks :
          ParseSrtFile(<<block>>, ListDict(<<d1, d2>>))
    /\ UNCHANGED <<gen_vars, front_vars>>

\* a call of parse_srt_file on a damaged transcript and a deck of two slides
CallParseSrtFileOnDamaged ==
    /\ sync_pc = "start"
    /\ \E blocks \in SeqsUpTo(DamagedBlocks, MaxBlocks) :
          ParseSrtFile(blocks, ListDict(<<5 * One, 5 * One>>))
    /\ UNCHANGED <<gen_vars, front_vars>>

SyncNext ==
    \/ CallParseSrtFile
    \/ CallParseSrtFileOnDeck
    \/ CallParseSrtFileOnFine
    \/ CallParseSrtFileOnDamaged
    \/ RunSyncScript

\* sync_subtitles.py
SyncSpecInit == Init /\ variant = "lecture_generator"

SyncSpec == SyncSpecInit /\ [][SyncNext]_vars

LoadContentFile ==
    /\ \E content \in ContentFiles : LoadSlidesContent(content)
    /\ UNCHANGED <<sync_vars, front_vars>>

SkipSilentSlide == SkipSlide /\ UNCHANGED <<sync_vars, front_vars>>

SynthesizeAndMeasure ==
    /\ \E measured \in MeasuredDurations : SynthesizeSlide(measured)
    /\ UNCHANGED <<sync_vars, front_vars>>

SynthesisRaises == SynthesisFails /\ UNCHANGED <<sync_vars, front_vars>>

AudioLoopEnds == AudioSegmentsReturn /\ UNCHANGED <<sync_vars, front_vars>>

SubtitlesStep == GenerateSubtitles /\ UNCHANGED <<sync_vars, front_vars>>

SrtStep == CreateSrtFile /\ UNCHANGED <<sync_vars, front_vars>>

GenNext ==
    \/ LoadContentFile
    \/ SkipSilentSlide
    \/ SynthesizeAndMeasure
    \/ SynthesisRaises
    \/ AudioLoopEnds
    \/ SubtitlesStep
    \/ SrtStep

\* generate_lecture of either generator module
GenSpec == Init /\ [][GenNext]_vars

\* the generator measures the audio files of a lecture
SynthesizeAndMeasureLecture ==
    /\ \E measured \in PipelineDurations : SynthesizeSlide(measured)
    /\ UNCHANGED <<sync_vars, front_vars>>

\* sync_subtitles.py after generate_lecture: the durations of the audio
\* files the generator wrote (the same samples, the same sample rate) and
\* the SRT file it saved
RunSyncScriptOnLecture ==
    /\ gen_pc = "done"
    /\ sync_pc = "start"
    /\ ParseSrtFile([i \in 1..Len(srt_items) |-> SavedBlock(srt_items[i])],
                    GetAudioDurations([n \in Range(audio_files) |-> slides[n].duration]))
    /\ UNCHANGED <<gen_vars, front_vars>>

PipelineNext ==
    \/ LoadContentFile
    \/ SkipSilentSlide
    \/ SynthesizeAndMeasureLecture
    \/ SynthesisRaises
    \/ AudioLoopEnds
    \/ SubtitlesStep
    \/ SrtStep
    \/ RunSyncScriptOnLecture

\* generate_lecture of either generator module, then the sync script on
\* its audio files and its SRT file
PipelineSpec == Init /\ [][PipelineNext]_vars

\* the sync script is not run
SyncOff ==
    /\ sync_pc = "off"
    /\ srt_blocks = <<>>
    /\ audio_durations = Dict(<<>>, <<>>)
    /\ slide_boundaries = <<>>
    /\ all_subtitles = <<>>
    /\ subtitles_by_slide = <<>>
    /\ cue_slide = <<>>

\* no generator is run
GenOff ==
    /\ variant = "lecture_generator"
    /\ gen_pc = "off"
    /\ slides = <<>>
    /\ subtitles = <<>>
    /\ subtitle_origin = <<>>
    /\ audio_files = <<>>
    /\ cumulative = 0
    /\ slide_idx = 0
    /\ srt_items = <<>>
    /\ content_data = <<>>
    /\ raised = "none"

RepoSpecInit == ((SyncInit /\ GenOff) \/ (SyncOff /\ GenInit)) /\ FrontOff

RepoNext ==
    \/ CallParseSrtFile
    \/ CallParseSrtFileOnDeck
    \/ CallParseSrtFileOnFine
    \/ CallParseSrtFileOnDamaged
    \/ RunSyncScript
    \/ LoadContentFile
    \/ SkipSilentSlide
    \/ SynthesizeAndMeasure
    \/ SynthesisRaises
    \/ AudioLoopEnds
    \/ SubtitlesStep
    \/ SrtStep

\* one run of one of the programs: the sync script, or generate_lecture of
\* either generator module
RepoSpec == RepoSpecInit /\ [][RepoNext]_vars

\* a generator object whose slides are already set, before generate_subtitles
AllocInit ==
    /\ variant \in {"lecture_generator", "lecture_gen"}
    /\ gen_pc = "subtitles"
    /\ slides \in AllocDecks
    /\ subtitles = <<>>
    /\ subtitle_origin = <<>>
    /\ audio_files = <<>>
    /\ cumulative = 0
    /\ slide_idx = Len(slides)
    /\ srt_items = <<>>
    /\ content_data = <<>>
    /\ raised = "none"

AllocSpecInit == SyncInit /\ AllocInit /\ FrontOff

AllocNext == SubtitlesStep \/ SrtStep

\* generate_subtitles, then create_srt_file, on any deck of slides
AllocSpec == AllocSpecInit /\ [][AllocNext]_vars

(* ---------------------------------------------------------------------- *)
(* generate_player.py: the script of output/dynamic_player.html            *)
(* ---------------------------------------------------------------------- *)
\* every audio file lasts MaxTime ticks
Cue(start, end, text) == [start |-> start, end |-> end, text |-> text]

\* subtitleData[currentSlide] || []
SlideSubtitles(n) == IF n \in DOMAIN subtitleData THEN subtitleData[n] ELSE <<>>

RECURSIVE FindLast(_, _, _)
\* mutant: the last cue that contains t
FindLast(subs, t, i) ==
    IF i > Len(subs) THEN 0
    ELSE LET later == FindLast(subs, t, i + 1)
         IN  IF later # 0 THEN later
             ELSE IF t >= subs[i].start /\ t <= subs[i].end THEN i ELSE 0

RECURSIVE Find(_, _, _)
\* slideSubtitles.find(sub => currentTime >= sub.start && currentTime <= sub.end):
\* the index of the first such cue, 0 for undefined
Find(subs, t, i) ==
    IF i > Len(subs) THEN 0
    ELSE IF t >= subs[i].start /\ t <= subs[i].end THEN i
    ELSE Find(subs, t, i + 1)

\* the 'timeupdate' listener that updates the subtitles, at currentTime t
SubtitleAfterTimeUpdate(t) ==
    LET slideSubtitles == SlideSubtitles(currentSlide)
        currentSubtitle == Find(slideSubtitles, t, 1)
    IN  IF currentSubtitle # 0 THEN slideSubtitles[currentSubtitle].text
        ELSE IF t > 0 THEN "..."
        ELSE subtitle_display

\* loadSlide(slideNum, autoPlay) up to its first await: the new sources are
\* set and loaded, the call then waits for both elements to be playable
LoadSlide(slideNum, autoPlay) ==
    /\ currentSlide' = slideNum
    /\ avatar_ready' = FALSE
    /\ audio_paused' = TRUE
    /\ audio_ended' = FALSE
    /\ audio_time' = 0
    /\ audio_ready' = FALSE
    /\ subtitle_display' = "Press play to hear narration"
    /\ autoplay_waiting' = IF autoPlay THEN autoplay_waiting + 1 ELSE autoplay_waiting

\* audio.play() on mainAudio: nothing plays when the file does not exist
AudioPlay ==
    IF currentSlide \in audio_on_disk
    THEN /\ audio_paused' = FALSE
         /\ audio_ended' = FALSE
         /\ audio_time' = IF audio_ended THEN 0 ELSE audio_time
         /\ audio_ready' = TRUE
    ELSE UNCHANGED <<audio_paused, audio_ended, audio_time, audio_ready>>

\* toggleQA()
ToggleQA ==
    /\ isQAMode' = ~isQAMode
    /\ IF isQAMode'
       THEN /\ wasPlaying' = ~audio_paused
            /\ audio_paused' = TRUE
            /\ UNCHANGED <<audio_ended, audio_time, audio_ready>>
       ELSE /\ UNCHANGED wasPlaying
            /\ IF wasPlaying THEN AudioPlay
               ELSE UNCHANGED <<audio_paused, audio_ended, audio_time, audio_ready>>

page == <<player_pc, num_slides, audio_on_disk, has_avatars, subtitleData>>

outside_player == <<sync_vars, gen_vars, qa_vars>>

\* onclick="loadSlide(i)" of a slide-nav button
ClickSlideButton ==
    /\ player_pc = "open"
    /\ \E i \in 1..num_slides : LoadSlide(i, FALSE)
    /\ last_event' = "loadSlide"
    /\ UNCHANGED <<page, isQAMode, wasPlaying, advance_timers, outside_player>>

\* the play button of the audio controls
PressPlay ==
    /\ player_pc = "open"
    /\ audio_paused
    /\ currentSlide \in audio_on_disk
    /\ AudioPlay
    /\ last_event' = "play"
    /\ UNCHANGED <<page, currentSlide, isQAMode, wasPlaying, avatar_ready,
                   advance_timers, autoplay_waiting, subtitle_display, outside_player>>

\* the pause button of the audio controls
PressPause ==
    /\ player_pc = "open"
    /\ ~audio_paused
    /\ audio_paused' = TRUE
    /\ last_event' = "pause"
    /\ UNCHANGED <<page, currentSlide, isQAMode, wasPlaying, audio_ended, audio_time,
                   audio_ready, avatar_ready, advance_timers, autoplay_waiting,
                   subtitle_display, outside_player>>

\* 'timeupdate' while the audio plays: the playback offset has moved on
PlaybackTimeUpdate ==
    /\ player_pc = "open"
    /\ ~audio_paused
    /\ audio_ready
    /\ \E t \in audio_time..MaxTime :
          /\ audio_time' = t
          /\ subtitle_display' = SubtitleAfterTimeUpdate(t)
    /\ last_event' = "timeupdate"
    /\ UNCHANGED <<page, currentSlide, isQAMode, wasPlaying, audio_paused, audio_ended,
                   audio_ready, avatar_ready, advance_timers, autoplay_waiting,
                   outside_player>>

\* 'timeupdate' after the user has moved the seek bar of the audio controls
SeekTimeUpdate ==
    /\ player_pc = "open"
    /\ audio_ready
    /\ \E t \in 0..MaxTime :
          /\ audio_time' = t
          /\ subtitle_display' = SubtitleAfterTimeUpdate(t)
    /\ audio_ended' = FALSE
    /\ last_event' = "timeupdate"
    /\ UNCHANGED <<page, currentSlide, isQAMode, wasPlaying, audio_paused,
                   audio_ready, avatar_ready, advance_timers, autoplay_waiting,
                   outside_player>>

\* the timer set by one more 'ended' handler would exceed the bound
PendingFull == advance_timers + autoplay_waiting >= MaxPending

\* 'ended': the audio has played to its end; the listener either starts the
\* 250 ms timer of the auto-advance or shows the end of the lecture
AudioEnded ==
    /\ player_pc = "open"
    /\ ~audio_paused
    /\ audio_ready
    /\ (currentSlide < num_slides /\ ~isQAMode) => ~PendingFull
    /\ audio_time' = MaxTime
    /\ audio_paused' = TRUE
    /\ audio_ended' = TRUE
    /\ IF currentSlide < num_slides /\ ~isQAMode
       THEN /\ advance_timers' = advance_timers + 1
            /\ UNCHANGED subtitle_display
       ELSE IF currentSlide >= num_slides
       THEN /\ subtitle_display' = "Lecture complete!"
            /\ UNCHANGED advance_timers
       ELSE UNCHANGED <<advance_timers, subtitle_display>>
    /\ last_event' = "ended"
    /\ UNCHANGED <<page, currentSlide, isQAMode, wasPlaying, audio_ready, avatar_ready,
                   autoplay_waiting, outside_player>>

\* the 250 ms are over: await loadSlide(currentSlide + 1, true)
AdvanceTimerFires ==
    /\ player_pc = "open"
    /\ advance_timers > 0
    /\ advance_timers' = advance_timers - 1
    /\ LoadSlide(currentSlide + 1, TRUE)
    /\ last_event' = "advance"
    /\ UNCHANGED <<page, isQAMode, wasPlaying, outside_player>>

\* 'canplay' of mainAudio: the file of the current slide has been loaded
AudioCanPlay ==
    /\ player_pc = "open"
    /\ ~audio_ready
    /\ currentSlide \in audio_on_disk
    /\ audio_ready' = TRUE
    /\ last_event' = "canplay"
    /\ UNCHANGED <<page, currentSlide, isQAMode, wasPlaying, audio_paused, audio_ended,
                   audio_time, avatar_ready, advance_timers, autoplay_waiting,
                   subtitle_display, outside_player>>

\* 'canplay' of avatarVideo
AvatarCanPlay ==
    /\ player_pc = "open"
    /\ ~avatar_ready
    /\ has_avatars
    /\ currentSlide \in 1..num_slides
    /\ avatar_ready' = TRUE
    /\ last_event' = "avatar canplay"
    /\ UNCHANGED <<page, currentSlide, isQAMode, wasPlaying, audio_paused, audio_ended,
                   audio_time, audio_ready, advance_timers, autoplay_waiting,
                   subtitle_display, outside_player>>

\* loadSlide(_, true) after Promise.all: audio.currentTime = 0, audio.play()
AutoPlayResumes ==
    /\ player_pc = "open"
    /\ autoplay_waiting > 0
    /\ audio_ready
    /\ avatar_ready
    /\ autoplay_waiting' = autoplay_waiting - 1
    /\ audio_time' = 0
    /\ audio_paused' = FALSE
    /\ audio_ended' = FALSE
    /\ last_event' = "autoplay"
    /\ UNCHANGED <<page, currentSlide, isQAMode, wasPlaying, audio_ready, avatar_ready,
                   advance_timers, subtitle_display, outside_player>>

\* onclick="toggleQA()" of the raise-hand button
ClickRaiseHand ==
    /\ player_pc = "open"
    /\ ToggleQA
    /\ last_event' = "toggleQA"
    /\ UNCHANGED <<page, currentSlide, avatar_ready, advance_timers, autoplay_waiting,
                   subtitle_display, outside_player>>

\* onclick="resumeLecture()" of the resume button inside the Q&A panel
ClickResume ==
    /\ player_pc = "open"
    /\ isQAMode
    /\ ToggleQA
    /\ last_event' = "resumeLecture"
    /\ UNCHANGED <<page, currentSlide, avatar_ready, advance_timers, autoplay_waiting,
                   subtitle_display, outside_player>>

\* const subtitleData = {}: no synced subtitle file
NoSubtitleData == <<>>

\* subtitle data with two cues that share the offset 1 on slide 1
SyncedSubtitleData ==
    (1 :> <<Cue(0, 1, "a1"), Cue(1, 2, "b1")>>) @@ (2 :> <<Cue(1, 2, "a2")>>)

\* subtitle data with cues for the second slide only
SecondSlideData == (2 :> <<Cue(0, 1, "c2")>>)

SubtitleDataSets == {NoSubtitleData, SyncedSubtitleData, SecondSlideData}

\* the page as generated for a deck the generator accepted: at least one
\* slide has narration, and so an audio file
PlayerInit ==
    /\ player_pc = "open"
    /\ num_slides \in 1..MaxPlayerSlides
    /\ audio_on_disk \in (SUBSET (1..num_slides)) \ {{}}
    /\ has_avatars \in BOOLEAN
    /\ subtitleData \in SubtitleDataSets
    /\ currentSlide = 1
    /\ isQAMode = FALSE
    /\ wasPlaying = FALSE
    /\ audio_paused = TRUE
    /\ audio_ended = FALSE
    /\ audio_time = 0
    /\ audio_ready = FALSE
    /\ avatar_ready = FALSE
    /\ advance_timers = 0
    /\ autoplay_waiting = 0
    /\ subtitle_display = "Press play to start the lecture"
    /\ last_event = "open"

PlayerSpecInit == SyncOff /\ GenOff /\ PlayerInit /\ QAOff

PlayerNext ==
    \/ ClickSlideButton
    \/ PressPlay
    \/ PressPause
    \/ PlaybackTimeUpdate
    \/ SeekTimeUpdate
    \/ AudioEnded
    \/ AdvanceTimerFires
    \/ AudioCanPlay
    \/ AvatarCanPlay
    \/ AutoPlayResumes
    \/ ClickRaiseHand
    \/ ClickResume

\* the player page in a browser, with a user
PlayerSpec == PlayerSpecInit /\ [][PlayerNext]_vars

\* the user starts the lecture: the first thing done on the page is to
\* press play on slide 1
StartLecture ==
    /\ last_event \in {"open", "canplay", "avatar canplay"}
    /\ currentSlide = 1
    /\ audio_time = 0
    /\ PressPlay

LectureNext ==
    \/ StartLecture
    \/ PlaybackTimeUpdate
    \/ AudioEnded
    \/ AdvanceTimerFires
    \/ AudioCanPlay
    \/ AvatarCanPlay
    \/ AutoPlayResumes

\* a playing audio reaches its end, a timer expires, a file that exists is
\* loaded, and a loadSlide whose promises are resolved goes on
LectureFairness ==
    /\ WF_vars(AudioEnded)
    /\ WF_vars(AdvanceTimerFires)
    /\ WF_vars(AudioCanPlay)
    /\ WF_vars(AvatarCanPlay)
    /\ WF_vars(AutoPlayResumes)

\* the player page with a user who starts the lecture and then only
\* watches, Q&A mode off
LectureSpec == PlayerSpecInit /\ [][LectureNext]_vars /\ LectureFairness

(* ---------------------------------------------------------------------- *)
(* qa_handler.py: LectureQAHandler and the Flask app of create_qa_server   *)
(* ---------------------------------------------------------------------- *)
\* A text is the sequence of its pieces; "Error" and ":" are pieces of
\* their own, so that a prefix of pieces is a prefix of characters.
Clients == 1..MaxClients

\* str.startswith(prefix)
StartsWith(text, prefix) ==
    Len(text) >= Len(prefix) /\ SubSeq(text, 1, Len(prefix)) = prefix

\* f"Error: {status_msg}" when check_ollama_status fails
StatusError(status_msg) == <<"Error", ":", " ", status_msg>>

\* f"Error: Ollama returned status {response.status_code}"
HttpError == <<"Error", ":", " ", "Ollama returned status ", "500">>

\* "Error: Request timed out. ..."
TimeoutError == <<"Error", ":", " ", "Request timed out. ...">>

\* f"Error generating answer: {str(e)}"
GenerationError(e) == <<"Error", " generating answer", ":", " ", e>>

\* what answer_question returns, by the way it ended
AnswerOf(how, text) ==
    CASE how = "status"    -> StatusError(text)
      [] how = "http"      -> HttpError
      [] how = "timeout"   -> TimeoutError
      [] how = "exception" -> GenerationError(text)
      [] how = "ok"        -> <<text>>

\* the ways answer_question can end, with the message or the model's text
Endings ==
    { [how |-> "status", text |-> "Ollama is not running"],
      [how |-> "status", text |-> "Model llama3.2:3b not found"],
      [how |-> "http", text |-> ""],
      [how |-> "timeout", text |-> ""],
      [how |-> "exception", text |-> "Connection aborted"],
      [how |-> "ok", text |-> "Yes."],
      [how |-> "ok", text |-> "No."] }

NoFile == [exists |-> FALSE, text |-> <<>>]

WavFile(text) == [exists |-> TRUE, text |-> text]

NoResponse == [status |-> 0, answer |-> <<>>, has_audio |-> FALSE]

\* answer.startswith("Error:")
IsErrorAnswer(text) == StartsWith(text, <<"Error", ":">>)

outside_qa == <<sync_vars, gen_vars, player_vars>>

\* POST /api/ask arrives: ask_question reads the request; a request
\* without question is answered with 400
PostAsk(c, question, with_audio) ==
    /\ qa_pc = "serving"
    /\ req_pc[c] \in {"idle", "responded", "fetched"}
    /\ generate_audio' = [generate_audio EXCEPT ![c] = with_audio]
    /\ outcome' = [outcome EXCEPT ![c] = "none"]
    /\ answer' = [answer EXCEPT ![c] = <<>>]
    /\ spoken' = [spoken EXCEPT ![c] = FALSE]
    /\ served' = [served EXCEPT ![c] = NoResponse]
    /\ IF question = ""
       THEN /\ req_pc' = [req_pc EXCEPT ![c] = "responded"]
            /\ response' = [response EXCEPT ![c] =
                               [status |-> 400, answer |-> <<>>, has_audio |-> FALSE]]
       ELSE /\ req_pc' = [req_pc EXCEPT ![c] = "answering"]
            /\ response' = [response EXCEPT ![c] = NoResponse]
    /\ UNCHANGED <<qa_pc, TTS_AVAILABLE, qa_response_wav>>

\* answer_question returns
AnswerQuestion(c, ending) ==
    /\ qa_pc = "serving"
    /\ req_pc[c] = "answering"
    /\ outcome' = [outcome EXCEPT ![c] = ending.how]
    /\ answer' = [answer EXCEPT ![c] = AnswerOf(ending.how, ending.text)]
    /\ req_pc' = [req_pc EXCEPT ![c] = "answered"]
    /\ UNCHANGED <<qa_pc, TTS_AVAILABLE, qa_response_wav, generate_audio, spoken,
                   response, served>>

\* the rest of ask_and_respond and of ask_question: generate_spoken_answer
\* for an answer that is not an error, written is whether tts_to_file
\* succeeded; then the JSON response
SpeakAndRespond(c, written) ==
    /\ qa_pc = "serving"
    /\ req_pc[c] = "answered"
    /\ LET called == generate_audio[c] /\ ~IsErrorAnswer(answer[c])
           audio_path == called /\ TTS_AVAILABLE /\ written
       IN  /\ spoken' = [spoken EXCEPT ![c] = called]
           /\ qa_response_wav' = IF audio_path THEN WavFile(answer[c]) ELSE qa_response_wav
           /\ response' = [response EXCEPT ![c] =
                              [status |-> 200, answer |-> answer[c], has_audio |-> audio_path]]
    /\ req_pc' = [req_pc EXCEPT ![c] = "responded"]
    /\ UNCHANGED <<qa_pc, TTS_AVAILABLE, generate_audio, outcome, answer, served>>

\* GET /api/audio of a client that has its answer
GetAudio(c) ==
    /\ qa_pc = "serving"
    /\ req_pc[c] = "responded"
    /\ served' = [served EXCEPT ![c] =
                     IF qa_response_wav.exists
                     THEN [status |-> 200, answer |-> qa_response_wav.text, has_audio |-> TRUE]
                     ELSE [status |-> 404, answer |-> <<>>, has_audio |-> FALSE]]
    /\ req_pc' = [req_pc EXCEPT ![c] = "fetched"]
    /\ UNCHANGED <<qa_pc, TTS_AVAILABLE, qa_response_wav, generate_audio, outcome,
                   answer, spoken, response>>

\* python qa_handler.py --server: no request yet, no audio file yet
QAInit ==
    /\ qa_pc = "serving"
    /\ TTS_AVAILABLE \in BOOLEAN
    /\ qa_response_wav = NoFile
    /\ req_pc = [c \in Clients |-> "idle"]
    /\ generate_audio = [c \in Clients |-> TRUE]
    /\ outcome = [c \in Clients |-> "none"]
    /\ answer = [c \in Clients |-> <<>>]
    /\ spoken = [c \in Clients |-> FALSE]
    /\ response = [c \in Clients |-> NoResponse]
    /\ served = [c \in Clients |-> NoResponse]

QASpecInit == SyncOff /\ GenOff /\ PlayerOff /\ QAInit

AskQuestion ==
    /\ \E c \in Clients, question \in {"", "why?"}, with_audio \in BOOLEAN :
          PostAsk(c, question, with_audio)
    /\ UNCHANGED outside_qa

AnswerReturns ==
    /\ \E c \in Clients, ending \in Endings : AnswerQuestion(c, ending)
    /\ UNCHANGED outside_qa

AskResponds ==
    /\ \E c \in Clients, written \in BOOLEAN : SpeakAndRespond(c, written)
    /\ UNCHANGED outside_qa

AudioRequested ==
    /\ \E c \in Clients : GetAudio(c)
    /\ UNCHANGED outside_qa

QANext == AskQuestion \/ AnswerReturns \/ AskResponds \/ AudioRequested

\* the Q&A server with its clients
QASpec == QASpecInit /\ [][QANext]_vars

(* ---------------------------------------------------------------------- *)
(* Properties of the re-binner (parse_srt_file)                            *)
(* ---------------------------------------------------------------------- *)
SlideKeys == DOMAIN audio_durations.val

\* the boundary parse_srt_file computed for slide n
BoundaryOf(n) ==
    slide_boundaries[CHOOSE i \in DOMAIN slide_boundaries : slide_boundaries[i].slide_num = n]

\* the output list of slide n, empty when the result has no key n
OutputOf(n) == IF n \in DOMAIN subtitles_by_slide THEN subtitles_by_slide[n] ELSE <<>>

CueIndices == DOMAIN all_subtitles

\* the cues that went to slide n, and the rank of cue j among them
CuesOf(n) == {j \in CueIndices : cue_slide[j] = n}
RankIn(j, n) == Cardinality({i \in CuesOf(n) : i <= j})

RECURSIVE DurationSum(_, _)
\* durations of the slides in K, added up in ascending slide-number order
DurationSum(durs, K) ==
    IF K = {} THEN 0
    ELSE LET m == CHOOSE x \in K : \A y \in K : y <= x
         IN  FAdd(DurationSum(durs, K \ {m}), durs.val[m])

TotalDuration == DurationSum(audio_durations, SlideKeys)

RemoveAt(seq, j) == [i \in 1..(Len(seq) - 1) |-> IF i < j THEN seq[i] ELSE seq[i + 1]]

\* C1: a cue goes to slide n exactly when boundary(n).start <= cue.start <
\* boundary(n).end, so to at most one slide, and a cue that starts on the
\* boundary shared by two slides goes to the later one.
C1_HalfOpenAssignment ==
    sync_pc = "done" =>
        /\ Len(cue_slide) = Len(all_subtitles)
        /\ \A j \in CueIndices :
              /\ \A n \in SlideKeys :
                    (cue_slide[j] = n) <=>
                        (BoundaryOf(n).start <= all_subtitles[j].start
                         /\ all_subtitles[j].start < BoundaryOf(n).end)
              /\ Cardinality({n \in SlideKeys :
                                BoundaryOf(n).start <= all_subtitles[j].start
                                /\ all_subtitles[j].start < BoundaryOf(n).end}) <= 1
              /\ \A n \in SlideKeys :
                    (BoundaryOf(n).end = all_subtitles[j].start) => cue_slide[j] # n
        /\ \A n \in SlideKeys : Len(OutputOf(n)) = Cardinality(CuesOf(n))

\* durations [5, 5] and a cue starting at 5.0: it is under slide 2
C1_Witness ==
    /\ sync_pc = "done"
    /\ audio_durations.val = <<5 * One, 5 * One>>
    /\ \E j \in CueIndices :
          /\ all_subtitles[j].start = 5 * One
          /\ cue_slide[j] = 2
          /\ Len(OutputOf(2)) >= 1

\* C2: a cue that starts at or after the end of the last boundary (the sum
\* of all durations) is in no slide's list, and the result is the one the
\* other cues alone would give.
C2_LateCueDropped ==
    sync_pc = "done" =>
        /\ \A j \in CueIndices :
              all_subtitles[j].start >= TotalDuration =>
                  /\ cue_slide[j] = 0
                  /\ AssignSubtitles(RemoveAt(all_subtitles, j), slide_boundaries,
                                     1, NoSubtitles).by_slide = subtitles_by_slide
        /\ \A n \in DOMAIN subtitles_by_slide :
              Len(subtitles_by_slide[n]) = Cardinality(CuesOf(n))

\* the last boundary ends at 10.0, a cue starts at 11.0, another cue is kept
C2_Witness ==
    /\ sync_pc = "done"
    /\ TotalDuration = 10 * One
    /\ \E j \in CueIndices : all_subtitles[j].start = 11 * One /\ cue_slide[j] = 0
    /\ \E j \in CueIndices : cue_slide[j] # 0

\* C3: the segment made from a cue under slide n is the cue with
\* boundary(n).start subtracted from its start and its end, text unchanged.
C3_RelativeShift ==
    sync_pc = "done" =>
        \A j \in CueIndices : \A n \in SlideKeys :
            cue_slide[j] = n =>
                /\ RankIn(j, n) <= Len(OutputOf(n))
                /\ OutputOf(n)[RankIn(j, n)] =
                      [start |-> FSub(all_subtitles[j].start, BoundaryOf(n).start),
                       end |-> FSub(all_subtitles[j].end, BoundaryOf(n).start),
                       text |-> all_subtitles[j].text]

\* the cue "x" that starts at 7.5 is under slide 2, which starts at 5.0, at 2.5
C3_Witness ==
    /\ sync_pc = "done"
    /\ 2 \in SlideKeys /\ 2 \in DOMAIN subtitles_by_slide
    /\ BoundaryOf(2).start = 5 * One
    /\ \E j \in CueIndices :
          /\ all_subtitles[j].start = 15 * Half
          /\ all_subtitles[j].end > all_subtitles[j].start
          /\ cue_slide[j] = 2
          /\ subtitles_by_slide[2][RankIn(j, 2)].start = 5 * Half
          /\ subtitles_by_slide[2][RankIn(j, 2)].end < all_subtitles[j].end
          /\ subtitles_by_slide[2][RankIn(j, 2)].text = "x"

\* C4: whatever the insertion order of the mapping and whether or not its
\* slide numbers are contiguous, boundary(n).start is the sum of the
\* durations of the slides with a smaller number, boundary(n).end is that
\* start plus duration(n); the first boundary starts at 0 and each boundary
\* ends where the next-numbered one starts.
C4_CumulativeBoundaries ==
    sync_pc = "done" =>
        /\ {slide_boundaries[i].slide_num : i \in DOMAIN slide_boundaries} = SlideKeys
        /\ Len(slide_boundaries) = Cardinality(SlideKeys)
        /\ \A n \in SlideKeys :
              /\ BoundaryOf(n).start =
                    DurationSum(audio_durations, {k \in SlideKeys : k < n})
              /\ BoundaryOf(n).end =
                    FAdd(BoundaryOf(n).start, audio_durations.val[n])
              /\ (\A k \in SlideKeys : n <= k) => BoundaryOf(n).start = 0
              /\ \A m \in SlideKeys :
                    (n < m /\ \A k \in SlideKeys : ~(n < k /\ k < m))
                        => BoundaryOf(n).end = BoundaryOf(m).start

\* a mapping inserted out of numeric order, with a gap in its slide numbers
C4_Witness ==
    /\ sync_pc = "done"
    /\ Len(audio_durations.order) >= 2
    /\ audio_durations.order[1] > audio_durations.order[2]
    /\ \E n \in SlideKeys : n > 1 /\ (n - 1) \notin SlideKeys
    /\ \A n \in SlideKeys : audio_durations.val[n] > 0
    /\ \E n \in SlideKeys : BoundaryOf(n).start > 0

ScenarioBlocks ==
    << Block(0, 0, 1, 0, "A"), Block(3, 500, 4, 0, "B"),
       Block(9, 0, 9, 500, "C"), Block(9, 500, 10, 0, "D") >>

ScenarioRun ==
    /\ sync_pc = "done"
    /\ audio_durations.val = <<3 * One, 4 * One, 2 * One>>
    /\ srt_blocks = ScenarioBlocks

Segment(start, end, text) == [start |-> start, end |-> end, text |-> text]

\* C5 as documented: A under slide 1, B under slide 2, C under slide 3 at
\* {2, 2.5}, D dropped.
C5_DocumentedScenario ==
    ScenarioRun =>
        /\ subtitles_by_slide =
              (1 :> <<Segment(0, One, "A")>>)
              @@ (2 :> <<Segment(Half, One, "B")>>)
              @@ (3 :> <<Segment(2 * One, 5 * Half, "C")>>)
        /\ cue_slide[4] = 0

\* C5, amended: A under slide 1, B under slide 2; C starts at 9.0, the end
\* of slide 3's boundary [7, 9), so C is dropped like D and the result has
\* no entry for slide 3.
C5_ScenarioAsComputed ==
    ScenarioRun =>
        /\ subtitles_by_slide =
              (1 :> <<Segment(0, One, "A")>>) @@ (2 :> <<Segment(Half, One, "B")>>)
        /\ BoundaryOf(3).start = 7 * One /\ BoundaryOf(3).end = 9 * One
        /\ cue_slide = <<1, 2, 0, 0>>

C5_Witness == ScenarioRun /\ Len(all_subtitles) = 4 /\ 3 \notin DOMAIN subtitles_by_slide

(* ---------------------------------------------------------------------- *)
(* Properties of the generator (generate_audio_segments,                   *)
(* generate_subtitles)                                                     *)
(* ---------------------------------------------------------------------- *)
SubtitlesMade == gen_pc \in {"srt", "done"}

SubtitleIndices == DOMAIN subtitles

\* the subtitles made from slide k, and the one made from its sentence i
SubtitlesOf(k) == {t \in SubtitleIndices : subtitle_origin[t].slide = k}
SubtitleAt(k, i) ==
    subtitles[CHOOSE t \in SubtitlesOf(k) : subtitle_origin[t].index = i]

SentenceCount(k) == Len(slides[k].narration_text)

\* slides that generate_subtitles does not skip
TimedSlides == {k \in DOMAIN slides : slides[k].duration > 0 /\ SentenceCount(k) >= 1}

\* float spacing at the end of slide k: the size of one rounding error
Spacing(k) == Ulp(slides[k].start_time + slides[k].duration)

\* rounding allowance for a time built from the slice of slide k
Tolerance(k) == (SentenceCount(k) + 2) * Spacing(k)

\* every timed slide has one subtitle per sentence, in deck order
OneSubtitlePerSentence ==
    /\ \A k \in TimedSlides :
          /\ Cardinality(SubtitlesOf(k)) = SentenceCount(k)
          /\ \A i \in 0..(SentenceCount(k) - 1) :
                \E t \in SubtitlesOf(k) : subtitle_origin[t].index = i
    /\ \A t \in SubtitleIndices : subtitle_origin[t].slide \in TimedSlides
    /\ \A t \in SubtitleIndices : \A u \in SubtitleIndices :
          t < u => \/ subtitle_origin[t].slide < subtitle_origin[u].slide
                   \/ /\ subtitle_origin[t].slide = subtitle_origin[u].slide
                      /\ subtitle_origin[t].index < subtitle_origin[u].index

\* C6 as documented: the segment of sentence i of a slide with duration D and
\* n sentences has the slide-relative times start_time = i * (D / n) and
\* end_time = (i + 1) * (D / n), on every slide (here: up to rounding).
C6_SlideRelativeSlices ==
    SubtitlesMade =>
        /\ OneSubtitlePerSentence
        /\ \A k \in TimedSlides : \A i \in 0..(SentenceCount(k) - 1) :
              LET n == SentenceCount(k)
                  D == slides[k].duration
                  seg == SubtitleAt(k, i)
              IN  /\ Abs(n * seg.start_time - i * D) <= n * Tolerance(k)
                  /\ Abs(n * seg.end_time - (i + 1) * D) <= n * Tolerance(k)
                  /\ (i = n - 1) => Abs(seg.end_time - D) <= Tolerance(k)

\* C6, amended: the times are absolute, start_time = slide.start_time +
\* i * (D / n) and end_time = slide.start_time + (i + 1) * (D / n), so the
\* last segment ends at slide.start_time + D (up to float rounding).
C6_AbsoluteSlices ==
    SubtitlesMade =>
        /\ OneSubtitlePerSentence
        /\ \A k \in TimedSlides : \A i \in 0..(SentenceCount(k) - 1) :
              LET n == SentenceCount(k)
                  D == slides[k].duration
                  S == slides[k].start_time
                  seg == SubtitleAt(k, i)
              IN  /\ Abs(n * seg.start_time - (n * S + i * D)) <= n * Tolerance(k)
                  /\ Abs(n * seg.end_time - (n * S + (i + 1) * D)) <= n * Tolerance(k)
                  /\ (i = n - 1) => Abs(seg.end_time - (S + D)) <= Tolerance(k)

\* a later slide, starting after 0, with several sentences
C6_Witness ==
    /\ SubtitlesMade
    /\ \E k \in TimedSlides :
          /\ k > 1
          /\ slides[k].start_time > 0
          /\ SentenceCount(k) >= 2
          /\ SubtitleAt(k, 1).start_time > slides[k].start_time

\* C7: the n segments of a slide with duration D all have the length D / n
\* (up to float rounding), whatever the length of their text.
C7_UniformSlices ==
    SubtitlesMade =>
        \A k \in TimedSlides : \A t \in SubtitlesOf(k) :
            Abs(SentenceCount(k) * (subtitles[t].end_time - subtitles[t].start_time)
                - slides[k].duration) <= SentenceCount(k) * 3 * Spacing(k)

\* a slide whose sentences differ in length
C7_Witness ==
    /\ SubtitlesMade
    /\ \E k \in TimedSlides : \E t \in SubtitlesOf(k) : \E u \in SubtitlesOf(k) :
          /\ Len(subtitles[t].text) # Len(subtitles[u].text)
          /\ subtitles[t].end_time > subtitles[t].start_time

\* C8: in both generator modules each segment of a slide ends exactly where
\* the next segment of that slide starts.
C8_Partition ==
    SubtitlesMade =>
        \A t \in SubtitleIndices : \A u \in SubtitleIndices :
            (u = t + 1 /\ subtitle_origin[t].slide = subtitle_origin[u].slide)
                => subtitles[t].end_time = subtitles[u].start_time

RECURSIVE SliceLengthSum(_)
\* sum over the subtitles in T of end_time - start_time
SliceLengthSum(T) ==
    IF T = {} THEN 0
    ELSE LET t == CHOOSE x \in T : TRUE
         IN  (subtitles[t].end_time - subtitles[t].start_time)
             + SliceLengthSum(T \ {t})

\* C9: the lengths of the segments of a slide add up to the slide's
\* duration (up to float rounding).
C9_SlicesFillSlide ==
    SubtitlesMade =>
        \A k \in TimedSlides :
            /\ SubtitlesOf(k) # {}
            /\ Abs(SliceLengthSum(SubtitlesOf(k)) - slides[k].duration) <= Tolerance(k)

\* a slide of three sentences whose slice D / 3 is not a float
C9_Witness ==
    /\ SubtitlesMade
    /\ \E k \in TimedSlides :
          /\ SentenceCount(k) = 3
          /\ Cardinality(SubtitlesOf(k)) = 3
          /\ 3 * SubtitleAt(k, 0).end_time # 3 * slides[k].start_time + slides[k].duration

\* generate_audio_segments has returned
AudioSegmentsDone == gen_pc \notin {"start", "audio"} /\ slide_idx = Len(slides)

RECURSIVE DurationsBefore(_)
\* durations of slides 1..k, added up left to right
DurationsBefore(k) ==
    IF k = 0 THEN 0 ELSE FAdd(DurationsBefore(k - 1), slides[k].duration)

HasNarration(k) == \E i \in DOMAIN slides[k].narration_text : slides[k].narration_text[i] # " "

\* C10 as documented: once generate_audio_segments has returned, every
\* slide, with or without audio, starts at the sum of the durations before it.
C10_EverySlideSequenced ==
    AudioSegmentsDone =>
        \A k \in DOMAIN slides : slides[k].start_time = DurationsBefore(k - 1)

\* C10, amended: this holds for the slides that received audio; a slide
\* skipped for lack of narration keeps start_time 0 and duration 0.
C10_AudioSlidesSequenced ==
    AudioSegmentsDone =>
        \A k \in DOMAIN slides :
            IF HasNarration(k)
            THEN slides[k].start_time = DurationsBefore(k - 1)
            ELSE slides[k].start_time = 0 /\ slides[k].duration = 0

\* a skipped slide between two slides with audio
C10_Witness ==
    /\ AudioSegmentsDone
    /\ Len(slides) = 3
    /\ slides[1].duration > 0
    /\ ~HasNarration(2)
    /\ HasNarration(3)
    /\ slides[3].start_time = slides[1].duration

(* ---------------------------------------------------------------------- *)
(* Keys and order of the re-binner's result                                *)
(* ---------------------------------------------------------------------- *)
\* cue j starts inside the boundary of slide n
StartsIn(j, n) ==
    /\ BoundaryOf(n).start <= all_subtitles[j].start
    /\ all_subtitles[j].start < BoundaryOf(n).end

\* cue j as a segment relative to the start of slide n
ShiftedTo(j, n) ==
    [start |-> FSub(all_subtitles[j].start, BoundaryOf(n).start),
     end |-> FSub(all_subtitles[j].end, BoundaryOf(n).start),
     text |-> all_subtitles[j].text]

\* C13: the result has the key n exactly when some cue starts inside the
\* boundary of slide n; no key has an empty list and every key is a slide
\* number of the durations mapping.
C13_KeysAreSlidesWithCues ==
    sync_pc = "done" =>
        /\ \A n \in DOMAIN subtitles_by_slide :
              /\ n \in SlideKeys
              /\ subtitles_by_slide[n] # <<>>
              /\ \E j \in CueIndices : StartsIn(j, n)
        /\ \A n \in SlideKeys :
              (\E j \in CueIndices : StartsIn(j, n)) => n \in DOMAIN subtitles_by_slide

\* three slides with audio, a cue under the last one only: the result has
\* that single key
C13_Witness ==
    /\ sync_pc = "done"
    /\ Cardinality(SlideKeys) = 3
    /\ \A n \in SlideKeys : audio_durations.val[n] > 0
    /\ all_subtitles # <<>>
    /\ \E n \in SlideKeys :
          /\ DOMAIN subtitles_by_slide = {n}
          /\ \A m \in SlideKeys : m <= n

RECURSIVE KeptInOrder(_, _)
\* the cues 1..j that start inside slide n, shifted, in encounter order
KeptInOrder(n, j) ==
    IF j = 0 THEN <<>>
    ELSE IF StartsIn(j, n) THEN Append(KeptInOrder(n, j - 1), ShiftedTo(j, n))
    ELSE KeptInOrder(n, j - 1)

\* C14: for any cue sequence, sorted by start or not, the list of slide n
\* is made of the cues that start inside slide n, each placed by its own
\* start time, in the order in which the transcript has them.
C14_EncounterOrder ==
    sync_pc = "done" =>
        \A n \in SlideKeys : OutputOf(n) = KeptInOrder(n, Len(all_subtitles))

\* a transcript that is not sorted: a later cue starts earlier, in the same
\* slide, and another one belongs to an earlier slide
C14_Witness ==
    /\ sync_pc = "done"
    /\ \E n \in DOMAIN subtitles_by_slide :
          /\ Len(subtitles_by_slide[n]) >= 2
          /\ subtitles_by_slide[n][1].start > subtitles_by_slide[n][2].start
    /\ \E i \in CueIndices : \E j \in CueIndices :
          /\ i < j
          /\ all_subtitles[i].start > all_subtitles[j].start
          /\ cue_slide[i] # 0 /\ cue_slide[j] # 0
          /\ cue_slide[i] > cue_slide[j]

(* ---------------------------------------------------------------------- *)
(* Degenerate inputs of generate_subtitles                                 *)
(* ---------------------------------------------------------------------- *)

\* C11: in a run of generate_lecture, a slide without sentences or with
\* duration 0 gets no segment, generate_subtitles raises nothing, and the
\* other slides get their segments.
C11_NoSegmentForEmptySlide ==
    SubtitlesMade =>
        /\ raised = "none"
        /\ \A k \in DOMAIN slides :
              (SentenceCount(k) = 0 \/ slides[k].duration = 0) => SubtitlesOf(k) = {}
        /\ \A t \in SubtitleIndices :
              /\ subtitle_origin[t].slide \in DOMAIN slides
              /\ slides[subtitle_origin[t].slide].duration # 0

\* a slide with text whose audio measured 0 s, a slide without text, and a
\* slide that did get segments
C11_Witness ==
    /\ SubtitlesMade
    /\ \E k \in DOMAIN slides :
          SentenceCount(k) >= 1 /\ slides[k].duration = 0 /\ k \in Range(audio_files)
    /\ \E k \in DOMAIN slides : SentenceCount(k) = 0
    /\ subtitles # <<>>

\* C12 as documented: a slide of duration 0 with exactly one sentence gets
\* exactly one segment, with start_time 0 and end_time 0; a slide of
\* duration 10 without sentences gets none.
C12_DegenerateSegment ==
    SubtitlesMade =>
        \A k \in DOMAIN slides :
            /\ (slides[k].duration = 0 /\ SentenceCount(k) = 1) =>
                  /\ Cardinality(SubtitlesOf(k)) = 1
                  /\ \A t \in SubtitlesOf(k) :
                        subtitles[t].start_time = 0 /\ subtitles[t].end_time = 0
            /\ (slides[k].duration = 10 * One /\ SentenceCount(k) = 0) =>
                  SubtitlesOf(k) = {}

\* C12, amended: a slide of duration 0 with exactly one sentence gets no
\* segment at all, and neither does a slide of duration 10 without sentences.
C12_DegenerateEmpty ==
    SubtitlesMade =>
        \A k \in DOMAIN slides :
            /\ (slides[k].duration = 0 /\ SentenceCount(k) = 1) =>
                  \A t \in SubtitleIndices : subtitle_origin[t].slide # k
            /\ (slides[k].duration = 10 * One /\ SentenceCount(k) = 0) =>
                  \A t \in SubtitleIndices : subtitle_origin[t].slide # k

\* allocate(0, ["a"]) and allocate(10, []) in one deck, after both steps
C12_Witness ==
    /\ gen_pc = "done"
    /\ \E k \in DOMAIN slides :
          slides[k].duration = 0 /\ slides[k].narration_text = <<"a">>
    /\ \E k \in DOMAIN slides :
          slides[k].duration = 10 * One /\ slides[k].narration_text = <<>>

(* ---------------------------------------------------------------------- *)
(* Shape of the segments                                                   *)
(* ---------------------------------------------------------------------- *)
WellFormed(text, start, end) == text # "" /\ start >= 0 /\ end >= start

\* the segments of generate_subtitles are well-formed
AllocatorSegmentsWellFormed ==
    \A t \in SubtitleIndices :
        WellFormed(subtitles[t].text, subtitles[t].start_time, subtitles[t].end_time)

\* the segments of parse_srt_file are well-formed
RebinnerSegmentsWellFormed ==
    \A n \in DOMAIN subtitles_by_slide : \A i \in DOMAIN subtitles_by_slide[n] :
        WellFormed(subtitles_by_slide[n][i].text, subtitles_by_slide[n][i].start,
                   subtitles_by_slide[n][i].end)

\* C18: every segment made by generate_subtitles and every segment made by
\* parse_srt_file, for any cues its parser accepts, has a non-empty text,
\* start_time >= 0 and end_time >= start_time.
C18_WellFormedSegments ==
    /\ SubtitlesMade => AllocatorSegmentsWellFormed
    /\ sync_pc = "done" => RebinnerSegmentsWellFormed

\* the part of C18 that the re-binner keeps: texts are non-empty, starts are
\* not negative, and a cue that does not end before it starts gives a
\* segment that does not either
RebinnerKeepsCueShape ==
    sync_pc = "done" =>
        /\ \A n \in DOMAIN subtitles_by_slide : \A i \in DOMAIN subtitles_by_slide[n] :
              subtitles_by_slide[n][i].text # "" /\ subtitles_by_slide[n][i].start >= 0
        /\ \A j \in CueIndices : \A n \in SlideKeys :
              (cue_slide[j] = n /\ all_subtitles[j].end >= all_subtitles[j].start)
                  => WellFormed(ShiftedTo(j, n).text, ShiftedTo(j, n).start,
                                ShiftedTo(j, n).end)

(* ---------------------------------------------------------------------- *)
(* Failures and frame of generate_lecture                                  *)
(* ---------------------------------------------------------------------- *)
\* the slide the audio loop is about to visit
NextSlide == slide_idx + 1

\* the state in which a synthesis error has left generate_lecture: the
\* failing slide and the slides after it have no audio, there are no
\* subtitles and no SRT items
AbortedAtSlide ==
    /\ gen_pc = "failed"
    /\ NextSlide \in DOMAIN slides
    /\ \A k \in Range(audio_files) : k < NextSlide
    /\ \A k \in DOMAIN slides :
          k >= NextSlide => slides[k].duration = 0 /\ slides[k].start_time = 0
    /\ subtitles = <<>>
    /\ srt_items = <<>>

\* the audio loop moves past a slide with narration only by synthesizing it
NoSkipAndContinue ==
    (gen_pc = "audio" /\ slide_idx' = slide_idx + 1 /\ HasNarration(NextSlide))
        => audio_files' = Append(audio_files, NextSlide)

\* C15: when synthesis or measurement of slide k raises, generate_lecture
\* ends with that error, slide k and the slides after it are not
\* synthesized, no subtitles and no SRT file are made, and nothing runs
\* afterwards; the loop never passes a slide with narration without audio.
C15_UpstreamFailureAborts ==
    /\ [](raised = "synthesis error" => AbortedAtSlide)
    /\ [][raised = "none"]_vars
    /\ [][NoSkipAndContinue]_vars

\* the synthesis of a middle slide fails after an earlier slide got audio
C15_Witness ==
    /\ raised = "synthesis error"
    /\ gen_pc = "failed"
    /\ audio_files # <<>>
    /\ NextSlide < Len(slides)
    /\ HasNarration(Len(slides))

\* C17: generate_subtitles and create_srt_file leave every field of every
\* slide as it is; once generate_audio_segments has returned, no step
\* changes a slide.
C17_SlidesFrozenAfterAudio ==
    [][gen_pc \notin {"start", "audio"} => slides' = slides]_vars

\* a finished run whose slides carry measured durations and start times
C17_Witness ==
    /\ gen_pc = "done"
    /\ subtitles # <<>>
    /\ srt_items # <<>>
    /\ \E k \in DOMAIN slides : slides[k].start_time > 0 /\ slides[k].duration > 0

(* ---------------------------------------------------------------------- *)
(* Empty inputs                                                            *)
(* ---------------------------------------------------------------------- *)
\* load_slides_content has run on a content record without slides
NoSlidesLoaded == gen_pc \notin {"start", "off"} /\ content_data = <<>>

\* parse_srt_file has run on a transcript without cues or on an empty
\* durations mapping
RebinnedNothing == sync_pc = "done" /\ (srt_blocks = <<>> \/ SlideKeys = {})

\* C16 as documented: generate_lecture on a content record with zero slides
\* raises nothing and yields no segments; parse_srt_file with zero cues or
\* zero slide durations yields an empty mapping.
C16_EmptyInputNotAnError ==
    /\ NoSlidesLoaded => raised = "none" /\ subtitles = <<>>
    /\ RebinnedNothing => subtitles_by_slide = <<>>

\* C16, amended: generate_lecture on a content record with zero slides
\* raises ValueError("No slides found!") right after loading, before any
\* audio, subtitle or SRT item is made, and only then; parse_srt_file with
\* zero cues or zero slide durations returns an empty mapping.
C16_EmptyInput ==
    /\ NoSlidesLoaded =>
          /\ gen_pc = "failed"
          /\ raised = "ValueError: no slides"
          /\ audio_files = <<>> /\ subtitles = <<>> /\ srt_items = <<>>
    /\ raised = "ValueError: no slides" => NoSlidesLoaded
    /\ RebinnedNothing =>
          /\ subtitles_by_slide = <<>>
          /\ \A j \in CueIndices : cue_slide[j] = 0

\* generate_lecture has run on a content record with an empty slides list
C16_Witness ==
    /\ NoSlidesLoaded
    /\ slides = <<>>
    /\ raised = "ValueError: no slides"
    /\ sync_pc = "off"

(* ---------------------------------------------------------------------- *)
(* The SRT file of create_srt_file                                         *)
(* ---------------------------------------------------------------------- *)
\* ms is the float product t * 1000 cut to a whole number of milliseconds
TruncatedMillis(ms, t) ==
    ms * One <= FRound(t * 1000, 1) /\ FRound(t * 1000, 1) < (ms + 1) * One

\* C19: the file has one item per segment, in slide order then sentence
\* order, numbered 1..n; the times of an item are the absolute times of its
\* segment (slide.start_time itself for the first sentence of a slide), cut
\* to whole milliseconds; the start times never decrease along the file.
C19_FlatSrtFile ==
    gen_pc = "done" =>
        /\ Len(srt_items) = Len(subtitles)
        /\ OneSubtitlePerSentence
        /\ \A i \in DOMAIN srt_items :
              /\ srt_items[i].index = i
              /\ srt_items[i].text = subtitles[i].text
              /\ TruncatedMillis(srt_items[i].start, subtitles[i].start_time)
              /\ TruncatedMillis(srt_items[i].end, subtitles[i].end_time)
              /\ subtitles[i].start_time >= slides[subtitle_origin[i].slide].start_time
              /\ subtitle_origin[i].index = 0 =>
                    TruncatedMillis(srt_items[i].start,
                                    slides[subtitle_origin[i].slide].start_time)
        /\ \A i \in DOMAIN srt_items : \A j \in DOMAIN srt_items :
              i < j => srt_items[i].start <= srt_items[j].start

\* two slides with segments; a time that is not a whole millisecond is cut
C19_Witness ==
    /\ gen_pc = "done"
    /\ Len(srt_items) >= 4
    /\ \E i \in DOMAIN srt_items :
          subtitle_origin[i].slide > 1 /\ subtitle_origin[i].index = 0
          /\ srt_items[i].start > 0
    /\ \E i \in DOMAIN srt_items :
          srt_items[i].start * One < FRound(subtitles[i].start_time * 1000, 1)

(* ---------------------------------------------------------------------- *)
(* Entries without text                                                    *)
(* ---------------------------------------------------------------------- *)
Loaded == gen_pc \notin {"start", "off"}

\* entry k of the content file has neither narration_text nor slide_text
Textless(k) ==
    ~content_data[k].has_narration_text /\ ~content_data[k].has_slide_text

\* every entry became the slide of its position; a textless one has an
\* empty narration and never gets audio
TextlessLoadedAsEmpty ==
    /\ Len(slides) = Len(content_data)
    /\ \A k \in DOMAIN content_data :
          /\ slides[k].slide_number = k
          /\ Textless(k) =>
                /\ slides[k].narration_text = <<>>
                /\ slides[k].duration = 0
                /\ k \notin Range(audio_files)

\* C20 as documented: textless entries are loaded as empty slides, and a
\* run on a deck that has some never ends with an error other than a
\* failure of the synthesis of another slide.
C20_TextlessNeverRaises ==
    Loaded =>
        /\ TextlessLoadedAsEmpty
        /\ (\E k \in DOMAIN content_data : Textless(k))
              => raised \in {"none", "synthesis error"}

\* C20, amended: textless entries are loaded as empty slides numbered by
\* position and the audio loop passes them without raising; the run ends
\* with the error "No audio generated!" exactly when no slide of the deck
\* has narration, and otherwise only a synthesis failure of a slide with
\* narration ends it early.
C20_TextlessIsEmptySlide ==
    Loaded =>
        /\ TextlessLoadedAsEmpty
        /\ raised = "synthesis error" => ~Textless(NextSlide)
        /\ raised = "ValueError: no audio" <=>
              /\ gen_pc = "failed"
              /\ slides # <<>>
              /\ slide_idx = Len(slides)
              /\ \A k \in DOMAIN slides : ~HasNarration(k)
        /\ (gen_pc = "failed" /\ \E k \in DOMAIN slides : HasNarration(k))
              => raised = "synthesis error"

\* a finished run on a deck with a textless entry between two slides with
\* audio
C20_Witness ==
    /\ gen_pc = "done"
    /\ Len(content_data) = 3
    /\ Textless(2)
    /\ slides[3].slide_number = 3
    /\ Range(audio_files) = {1, 3}
    /\ subtitles # <<>>

(* ---------------------------------------------------------------------- *)
(* Damaged transcripts                                                     *)
(* ---------------------------------------------------------------------- *)
\* the second line is exactly 'HH:MM:SS,mmm --> HH:MM:SS,mmm'
WellFormedTiming(line) == line.has_timing /\ line.before = "" /\ line.after = ""

WellFormedBlock(block) == block.nlines >= 3 /\ WellFormedTiming(block.line2)

\* the cue written in a well-formed block
WrittenCue(block) ==
    [start |-> ParseTime(block.start), end |-> ParseTime(block.end), text |-> block.text]

WellFormedCues ==
    LET good == SelectSeq(srt_blocks, WellFormedBlock)
    IN  [i \in 1..Len(good) |-> WrittenCue(good[i])]

\* C21: parse_srt_file returns normally, a block with fewer than 3 lines
\* or with a second line that is not a well-formed timing line contributes
\* no cue, and the cues of the other blocks and their assignment to slides
\* are what they are without that block.
C21_MalformedBlocksSkipped ==
    sync_pc = "done" =>
        /\ all_subtitles = WellFormedCues
        /\ subtitles_by_slide =
              AssignSubtitles(WellFormedCues, slide_boundaries, 1, NoSubtitles).by_slide

(* ---------------------------------------------------------------------- *)
(* Conservation and range of the re-binner                                 *)
(* ---------------------------------------------------------------------- *)
\* the cues that start inside the boundary of slide n
StartingIn(n) == {j \in CueIndices : StartsIn(j, n)}

\* cue j starts before the sum of all slide durations
InDeck(j) == 0 <= all_subtitles[j].start /\ all_subtitles[j].start < TotalDuration

RECURSIVE SegmentCount(_)
\* number of segments under the keys K of the result
SegmentCount(K) ==
    IF K = {} THEN 0
    ELSE LET n == CHOOSE x \in K : TRUE
         IN  Len(subtitles_by_slide[n]) + SegmentCount(K \ {n})

Occurrences(seg, n) == Cardinality({i \in DOMAIN OutputOf(n) : OutputOf(n)[i] = seg})

\* C27: when no slide duration is negative, a cue that starts in
\* [0, sum of the durations) starts inside the boundary of exactly one
\* slide and is in the output once, under that slide (equal cues as often
\* as they occur); the list of a slide has one segment per cue that starts
\* inside its boundary, so nothing is duplicated and the output segments
\* and the dropped cues add up to the parsed cues.
C27_Conservation ==
    (sync_pc = "done" /\ \A n \in SlideKeys : audio_durations.val[n] >= 0) =>
        /\ \A j \in CueIndices : InDeck(j) =>
              /\ Cardinality({n \in SlideKeys : StartsIn(j, n)}) = 1
              /\ \A n \in SlideKeys : StartsIn(j, n) =>
                    Occurrences(ShiftedTo(j, n), n) =
                        Cardinality({i \in StartingIn(n) : ShiftedTo(i, n) = ShiftedTo(j, n)})
        /\ \A n \in SlideKeys : Len(OutputOf(n)) = Cardinality(StartingIn(n))
        /\ DOMAIN subtitles_by_slide \subseteq SlideKeys
        /\ SegmentCount(DOMAIN subtitles_by_slide)
              + Cardinality({j \in CueIndices : ~InDeck(j)}) = Len(all_subtitles)

\* four cues on two slides: one is dropped, the others are spread over
\* both slides
C27_Witness ==
    /\ sync_pc = "done"
    /\ Len(all_subtitles) = 4
    /\ Cardinality({j \in CueIndices : ~InDeck(j)}) = 1
    /\ DOMAIN subtitles_by_slide = {1, 2}
    /\ SegmentCount(DOMAIN subtitles_by_slide) = 3

C23_RoundTripKeepsSlide ==
    (gen_pc = "done" /\ sync_pc = "done") =>
        /\ Len(cue_slide) = Len(subtitles)
        /\ \A i \in DOMAIN subtitles : cue_slide[i] = subtitle_origin[i].slide

(* ---------------------------------------------------------------------- *)
(* The player                                                              *)
(* ---------------------------------------------------------------------- *)
\* C24: whatever the order of slide-button clicks, 'ended' events and
\* expiries of the 250 ms timer, currentSlide stays within 1..num_slides.
C24_CurrentSlideInRange ==
    player_pc = "open" => currentSlide \in 1..num_slides

\* C25: while isQAMode is true the player never starts the lecture audio
\* on its own: no loadSlide(_, true) that the auto-advance called goes on
\* to audio.play(), also when the hand was raised between the 'ended'
\* event and the expiry of its 250 ms timer.
C25_NoAutoPlayInQAMode ==
    (player_pc = "open" /\ isQAMode) => last_event # "autoplay"

LectureComplete ==
    currentSlide = num_slides /\ subtitle_display = "Lecture complete!"

\* C26: once the lecture has been started on slide 1, with Q&A mode off and
\* no further user action, the player reaches slide num_slides and shows
\* 'Lecture complete!', for every accepted deck, also one with a slide
\* that has no audio file.
C26_LectureCompletes == (last_event = "play") ~> LectureComplete

\* the indices of the cues of the current slide that contain the offset
CuesAt(t) ==
    {i \in DOMAIN SlideSubtitles(currentSlide) :
        SlideSubtitles(currentSlide)[i].start <= t /\ t <= SlideSubtitles(currentSlide)[i].end}

CueTexts(n) == {SlideSubtitles(n)[i].text : i \in DOMAIN SlideSubtitles(n)}

\* C22: after a timeupdate at offset t of the current slide s the display
\* shows the text of the first cue of subtitleData[s] with
\* start <= t <= end when there is one, and '...' when there is none and
\* t > 0; the display never shows a cue of another slide.
C22_SubtitleLookup ==
    player_pc = "open" =>
        /\ last_event = "timeupdate" =>
              /\ CuesAt(audio_time) # {} =>
                    \E i \in CuesAt(audio_time) :
                        /\ \A k \in CuesAt(audio_time) : i <= k
                        /\ subtitle_display = SlideSubtitles(currentSlide)[i].text
              /\ (CuesAt(audio_time) = {} /\ audio_time > 0) => subtitle_display = "..."
        /\ \A n \in DOMAIN subtitleData :
              subtitle_display \in CueTexts(n) => n = currentSlide

\* a timeupdate at the offset that two cues of slide 1 share: the first is
\* shown
C22_Witness ==
    /\ player_pc = "open"
    /\ last_event = "timeupdate"
    /\ currentSlide = 1
    /\ Cardinality(CuesAt(audio_time)) = 2
    /\ subtitle_display = "a1"

(* ---------------------------------------------------------------------- *)
(* The Q&A server                                                          *)
(* ---------------------------------------------------------------------- *)
Answered(c) == qa_pc = "serving" /\ req_pc[c] \in {"responded", "fetched"}

\* answer_question ended in one of its error returns
ErrorOutcome(c) == outcome[c] \in {"status", "http", "timeout", "exception"}

\* C29: when answer_question ends in an error (Ollama not running or model
\* missing, a status other than 200, a timeout, any other exception),
\* generate_spoken_answer is not called and /api/ask reports
\* has_audio = false.
C29_ErrorsNeverSpoken ==
    \A c \in DOMAIN req_pc :
        (Answered(c) /\ ErrorOutcome(c)) => (~spoken[c] /\ ~response[c].has_audio)

\* C30: the GET /api/audio that follows a POST /api/ask of the same client
\* returns the audio of the answer of that POST when it reported
\* has_audio = true, and no audio when it reported has_audio = false.
C30_AudioMatchesAnswer ==
    \A c \in DOMAIN req_pc :
        (qa_pc = "serving" /\ req_pc[c] = "fetched") =>
            IF response[c].has_audio
            THEN served[c].status = 200 /\ served[c].answer = response[c].answer
            ELSE served[c].status = 404

====
